---- MODULE Spec2Model ----
(***************************************************************************)
(* Model of src/main.py: the time-budgeted scheduler (main) that repeats   *)
(* run_detection_cycle_parallel, which captures one frame, fans it out to  *)
(* the three YOLO models on a ThreadPoolExecutor, collects the outcomes    *)
(* with as_completed and publishes the combined record.                    *)
(*                                                                         *)
(* Time is counted in whole seconds.  `now` is the wall clock              *)
(* (time.time()).                                                          *)
(***************************************************************************)
EXTENDS Integers, Sequences, FiniteSets

VARIABLES
    pc,              \* position of the main thread
    now,             \* wall clock, time.time()
    start_time,      \* main.py:102
    max_duration,    \* main.py:103 (the budget)
    num_cores,       \* main.py:88
    max_workers,     \* main.py:89
    execution_times, \* main.py:100, 111
    timestamp,       \* main.py:42
    cycle_start,     \* main.py:48
    parallel_duration, \* main.py:72
    all_results,     \* main.py:47, 64 (the keys of the dict)
    work_queue,      \* the executor's queue of submitted, not yet started calls
    status,          \* per model: state of its future in the current cycle
    future,          \* per model: the tuple run_model_detection returned
    yielded,         \* futures the as_completed loop has handled
    sleep_time,      \* main.py:115
    sink,            \* every record handed to plugin.publish, in order
    outcome,         \* how the process ended
    exc,             \* the exception caught in main.py:135, with the cycle it rose in
    cycle,           \* history: number of cycles started (loop bodies entered)
    started_at,      \* history: elapsed time at which the current cycle started
    captures,        \* history: timestamp returned by each snapshot
    invocations,     \* history: detect() calls per model in the current cycle
    outcomes,        \* history: per cycle and model, how its detect() call went
    faults           \* history: number of failed/None detect() calls so far

vars == <<pc, now, start_time, max_duration, num_cores, max_workers,
          execution_times, timestamp, cycle_start, parallel_duration,
          all_results, work_queue, status, future, yielded, sleep_time,
          sink, outcome, exc, cycle, started_at, captures, invocations,
          outcomes, faults>>

----------------------------------------------------------------------------
(* Program constants *)

\* main.py:104
interval == 3
\* main.py:89, the configured cap of min(3, num_cores, 3)
WorkerCap == 3

(* Bounds of the model *)

\* largest budget a run is given: max_duration (main.py:103, 24 h less 3 s
\* in the source) is drawn from 0..MaxBudget seconds
MaxBudget == 9
\* largest number of CPU cores multiprocessing.cpu_count() reports; one more
\* than the cap, so that either of the two limits can be the smaller one
MaxCores == 4
\* largest number of detect() calls of one run that raise or return None
MaxFaults == 2
\* detect() calls fail only in runs whose budget is at most one second more
\* than the pacing interval (the shortest budget with two paced cycles);
\* longer runs are explored with models that always succeed
FaultyBudget == interval + 1

\* main.py:94-98, in dict (submission) order
ModelNames == <<"YOLOv8n", "YOLOv5n", "YOLOv10n">>
Models == {ModelNames[i] : i \in 1..Len(ModelNames)}

\* Python's None, for the result and error slots of the returned tuple
None == <<>>
\* a non-None value returned by model_instance.detect
Detections == <<"detections">>

Min(a, b) == IF a < b THEN a ELSE b

RECURSIVE Sum(_)
Sum(s) == IF s = <<>> THEN 0 ELSE Head(s) + Sum(Tail(s))

\* str.lower() of the model names, main.py:67
Lower(name) ==
    CASE name = "YOLOv8n" -> "yolov8n"
      [] name = "YOLOv5n" -> "yolov5n"
      [] name = "YOLOv10n" -> "yolov10n"

----------------------------------------------------------------------------
(* Records handed to plugin.publish.  `cycle` is a history field: the cycle *)
(* during which the publish call was made (0 outside any cycle).            *)

Record(topic, name, ts, keys, payload) ==
    [topic |-> topic, name |-> name, cycle |-> cycle, ts |-> ts,
     keys |-> keys, payload |-> payload]

\* main.py:66-70
ErrorRecord(model_name, error) ==
    Record("model.error", Lower(model_name), timestamp, {}, error)

\* main.py:74-80
DetectionsRecord ==
    Record("object.detections.all", "", timestamp, all_results,
           <<parallel_duration>>)

\* main.py:127: sum / len guarded by the conditional expression;
\* the quotient is kept as the pair <<numerator, denominator>>
ZeroDivisionError == <<"ZeroDivisionError">>
Divide(a, b) == IF b = 0 THEN ZeroDivisionError ELSE <<a, b>>
\* mutant: the average is computed without the guard on an empty list
AverageUnguarded(times) == Divide(Sum(times), Len(times))

AverageCycleTime(times) ==
    IF times # <<>> THEN Divide(Sum(times), Len(times)) ELSE <<0, 1>>

\* mutant: total_cycles is taken from the elapsed time, one cycle per
\* interval, not from the cycles run
SummaryBySlots ==
    [topic |-> "plugin.timing.summary", name |-> "", cycle |-> 0, ts |-> 0,
     keys |-> {},
     payload |-> <<(now - start_time) \div interval>>
                   \o AverageCycleTime(execution_times)]

\* main.py:122-133
SummaryRecord ==
    [topic |-> "plugin.timing.summary", name |-> "", cycle |-> 0, ts |-> 0,
     keys |-> {},
     payload |-> <<Len(execution_times)>> \o AverageCycleTime(execution_times)]

\* main.py:136-143
PluginErrorRecord(e) ==
    [topic |-> "plugin.error", name |-> "", cycle |-> 0, ts |-> 0,
     keys |-> {}, payload |-> <<"critical_error", e[1]>>]

----------------------------------------------------------------------------
Idle == [m \in Models |-> "idle"]
NoFutures == [m \in Models |-> None]
NoCalls == [m \in Models |-> 0]
NotInvoked == [m \in Models |-> "not_invoked"]
NoException == <<>>

Init ==
    /\ pc = "init_models"
    /\ now = 0
    /\ start_time = 0
    /\ max_duration = 0
    /\ num_cores \in 1..MaxCores
    /\ max_workers = Min(Min(WorkerCap, num_cores), WorkerCap)
    /\ execution_times = <<>>
    /\ timestamp = 0
    /\ cycle_start = 0
    /\ parallel_duration = 0
    /\ all_results = {}
    /\ work_queue = <<>>
    /\ status = Idle
    /\ future = NoFutures
    /\ yielded = {}
    /\ sleep_time = 0
    /\ sink = <<>>
    /\ outcome = "running"
    /\ exc = NoException
    /\ cycle = 0
    /\ started_at = 0
    /\ captures = <<>>
    /\ invocations = NoCalls
    /\ outcomes = <<>>
    /\ faults = 0

configVars == <<start_time, max_duration, num_cores, max_workers>>
mainVars == <<execution_times, timestamp, cycle_start, parallel_duration,
              all_results, yielded, sleep_time>>
poolVars == <<work_queue, status, future>>
endVars == <<sink, outcome, exc>>
histVars == <<cycle, started_at, captures, invocations, outcomes, faults>>

Elapsed == now - start_time

\* mutant: the exception is swallowed inside the loop, which goes on
SwallowedInLoop == "pace"

\* main.py:92, 135: an exception raised inside the try block is caught by the
\* handler of main
OuterHandler == "except"

\* main.py:94-104: the models are built, the clock is read, the budget is set
InitModels ==
    /\ pc = "init_models"
    /\ \E B \in 0..MaxBudget : max_duration' = B
    /\ start_time' = now
    /\ execution_times' = <<>>
    /\ pc' = "loop"
    /\ UNCHANGED <<now, num_cores, max_workers, timestamp, cycle_start,
                   parallel_duration, all_results, yielded, sleep_time,
                   poolVars, endVars, histVars>>

\* main.py:94-98: a model constructor raises
InitModelsFail ==
    /\ pc = "init_models"
    /\ exc' = <<"ModelLoadError", cycle>>
    /\ pc' = OuterHandler
    /\ UNCHANGED <<now, configVars, mainVars, poolVars, sink, outcome,
                   histVars>>

\* mutant: the budget check lets a cycle start when the budget is used up
BudgetNotExceeded == Elapsed <= max_duration

\* main.py:106
BudgetLeft == Elapsed < max_duration

\* main.py:106, condition true: the loop body is entered
LoopEnter ==
    /\ pc = "loop"
    /\ BudgetLeft
    /\ pc' = "capture"
    /\ cycle' = cycle + 1
    /\ started_at' = Elapsed
    /\ outcomes' = Append(outcomes, NotInvoked)
    /\ UNCHANGED <<now, configVars, mainVars, poolVars, endVars, captures,
                   invocations, faults>>

\* main.py:106, condition false
LoopExit ==
    /\ pc = "loop"
    /\ ~BudgetLeft
    /\ pc' = "summary"
    /\ UNCHANGED <<now, configVars, mainVars, poolVars, endVars, histVars>>

\* the timestamp of the n-th snapshot of the run; distinct snapshots carry
\* distinct timestamps
SnapshotTimestamp(n) == n

\* mutant: the timestamp of the first snapshot is kept for the whole run
FirstTimestamp(snapshot_timestamp) ==
    IF timestamp # 0 THEN timestamp ELSE snapshot_timestamp

\* main.py:42
CycleTimestamp(snapshot_timestamp) == snapshot_timestamp

\* main.py:39-48
Capture ==
    /\ pc = "capture"
    /\ LET ts == SnapshotTimestamp(Len(captures) + 1) IN
         /\ captures' = Append(captures, ts)
         /\ timestamp' = CycleTimestamp(ts)
    /\ all_results' = {}
    /\ cycle_start' = now
    /\ pc' = "submit"
    /\ UNCHANGED <<now, configVars, execution_times, parallel_duration,
                   yielded, sleep_time, poolVars, endVars, cycle, started_at,
                   invocations, outcomes, faults>>

\* main.py:39-40: Camera(...) or camera.snapshot() raises
CaptureFail ==
    /\ pc = "capture"
    /\ exc' = <<"CaptureError", cycle>>
    /\ pc' = OuterHandler
    /\ UNCHANGED <<now, configVars, mainVars, poolVars, sink, outcome,
                   histVars>>

\* main.py:50-59: one future per model, queued in dict order
Submit ==
    /\ pc = "submit"
    /\ work_queue' = ModelNames
    /\ status' = [m \in Models |-> "queued"]
    /\ future' = NoFutures
    /\ yielded' = {}
    /\ invocations' = NoCalls
    /\ pc' = "as_completed"
    /\ UNCHANGED <<now, configVars, execution_times, timestamp, cycle_start,
                   parallel_duration, all_results, sleep_time, endVars, cycle,
                   started_at, captures, outcomes, faults>>

Running == {m \in Models : status[m] = "running"}

\* calls whose detect() never returns; they keep their worker thread
Hung == {m \in Models : status[m] = "hung"}

\* mutant: the pool starts a thread for every submitted call
WorkerAlwaysFree == TRUE

\* mutant: the pool keeps one thread back, so a pool of one runs nothing
NoSpareWorker == Cardinality(Running \cup Hung) < max_workers - 1

\* ThreadPoolExecutor(max_workers): a worker thread is free
WorkerFree == Cardinality(Running \cup Hung) < max_workers

\* the history of the current cycle with model m's entry set to v
Noted(m, v) == [outcomes EXCEPT ![cycle] = [@ EXCEPT ![m] = v]]

\* a worker thread takes the next queued call and enters run_model_detection,
\* main.py:22-25
WorkerStart ==
    /\ work_queue # <<>>
    /\ WorkerFree
    /\ LET m == Head(work_queue) IN
         /\ status' = [status EXCEPT ![m] = "running"]
         /\ invocations' = [invocations EXCEPT ![m] = @ + 1]
         /\ outcomes' = Noted(m, "running")
    /\ work_queue' = Tail(work_queue)
    /\ UNCHANGED <<pc, now, configVars, mainVars, future, endVars, cycle,
                   started_at, captures, faults>>

\* the bound on failing detect() calls
FaultAllowed == faults < MaxFaults /\ max_duration <= FaultyBudget

\* main.py:27-34
ErrorData(model_name) == <<model_name, "Exception", "message">>

\* main.py:25-26: detect returns a value; the future holds
\* (model_name, detection_result, None)
DetectReturn(m) ==
    /\ status[m] = "running"
    /\ \E r \in {Detections, None} :
         /\ r = None => FaultAllowed
         /\ faults' = IF r = None THEN faults + 1 ELSE faults
         /\ future' = [future EXCEPT ![m] = <<m, r, None>>]
         /\ outcomes' = Noted(m, IF r = None THEN "none" ELSE "detections")
    /\ status' = [status EXCEPT ![m] = "done"]
    /\ UNCHANGED <<pc, now, configVars, mainVars, work_queue, endVars, cycle,
                   started_at, captures, invocations>>

\* main.py:27-34: detect raises; the future holds (model_name, None, error_data)
DetectRaise(m) ==
    /\ status[m] = "running"
    /\ FaultAllowed
    /\ faults' = faults + 1
    /\ future' = [future EXCEPT ![m] = <<m, None, ErrorData(m)>>]
    /\ outcomes' = Noted(m, "raised")
    /\ status' = [status EXCEPT ![m] = "done"]
    /\ UNCHANGED <<pc, now, configVars, mainVars, work_queue, endVars, cycle,
                   started_at, captures, invocations>>

\* mutant: every returned tuple is taken for a success
IsSuccessAlways(result) == TRUE

\* main.py:63
IsSuccess(result) == result # None

\* main.py:61-64: as_completed yields a finished future holding a result
CollectResult(m) ==
    /\ pc = "as_completed"
    /\ status[m] = "done"
    /\ m \notin yielded
    /\ IsSuccess(future[m][2])
    /\ all_results' = all_results \cup {future[m][1]}
    /\ yielded' = yielded \cup {m}
    /\ UNCHANGED <<pc, now, configVars, execution_times, timestamp,
                   cycle_start, parallel_duration, sleep_time, poolVars,
                   endVars, histVars>>

\* main.py:61-62, 65-70: as_completed yields a finished future without result
CollectError(m) ==
    /\ pc = "as_completed"
    /\ status[m] = "done"
    /\ m \notin yielded
    /\ ~IsSuccess(future[m][2])
    /\ sink' = Append(sink, ErrorRecord(future[m][1], future[m][3]))
    /\ yielded' = yielded \cup {m}
    /\ UNCHANGED <<pc, now, configVars, execution_times, timestamp,
                   cycle_start, parallel_duration, all_results, sleep_time,
                   poolVars, outcome, exc, histVars>>

\* mutant: the collecting loop is left after the first future
FirstYielded == yielded # {}

\* main.py:61: as_completed is exhausted once every submitted future was yielded
AllYielded == yielded = Models

\* main.py:50, 71: leaving the with block shuts the executor down with
\* wait=True, which returns once no call is queued or running
ExecutorShutDown == \A m \in Models : status[m] = "done"

\* mutant: the fan-in returns with the first completed call, without joining
\* the workers
FirstCompleted == yielded # {}

\* mutant: the fan-in gives up on a call that does not return
FanInTimedOut == \A m \in Models : m \in yielded \/ status[m] = "hung"

\* main.py:50-71: the fan-in
FanInComplete == AllYielded /\ ExecutorShutDown

\* main.py:61, 71-72: the loop ends, the executor is shut down and the
\* duration of the fan-out is taken
JoinWorkers ==
    /\ pc = "as_completed"
    /\ FanInComplete
    /\ parallel_duration' = now - cycle_start
    /\ pc' = "publish_all"
    /\ UNCHANGED <<now, configVars, execution_times, timestamp, cycle_start,
                   all_results, yielded, sleep_time, poolVars, endVars,
                   histVars>>

\* mutant: the combined record is published only when no model failed
PublishIfAllSucceeded(s) ==
    IF all_results = Models THEN Append(s, DetectionsRecord) ELSE s

\* mutant: the combined record of a cycle that outlived the budget is dropped
PublishWithinBudget(s) ==
    IF now - start_time < max_duration THEN Append(s, DetectionsRecord) ELSE s

\* mutant: the error records of the cycle are held back and published after
\* the combined record
CombinedFirst(s) ==
    LET held(r) == r.topic = "model.error" /\ r.cycle = cycle
        other(r) == ~held(r)
    IN  Append(SelectSeq(s, other), DetectionsRecord) \o SelectSeq(s, held)

\* main.py:80
CombinedPublish(s) == Append(s, DetectionsRecord)

\* main.py:74-82 and 107-111: the record is published, the function returns
\* (its local cycle_start is gone) and the duration is appended
PublishAll ==
    /\ pc = "publish_all"
    /\ sink' = CombinedPublish(sink)
    /\ execution_times' = Append(execution_times, parallel_duration)
    /\ cycle_start' = 0
    /\ pc' = "pace"
    /\ UNCHANGED <<now, configVars, timestamp, parallel_duration, all_results,
                   yielded, sleep_time, poolVars, outcome, exc, histVars>>

\* mutant: the next cycle is due one second before the next multiple
NextCycleEarly(elapsed) == ((elapsed \div interval) + 1) * interval - 1

\* mutant: the next cycle is due one second later, not at the next multiple
NextSecond(elapsed) == elapsed + 1

\* main.py:114: int(elapsed / interval) truncates a non-negative quotient
NextCycleTime(elapsed) == ((elapsed \div interval) + 1) * interval

\* mutant: the scheduler sleeps whenever the next cycle is not yet due,
\* whether or not the wake-up is inside the budget
SleepAlways(elapsed, st) == st > 0

\* main.py:117
ShouldSleep(elapsed, st) == st > 0 /\ (elapsed + st) < max_duration

\* main.py:113-118, the branch that sleeps
PaceSleep ==
    /\ pc = "pace"
    /\ LET st == NextCycleTime(Elapsed) - Elapsed IN
         /\ ShouldSleep(Elapsed, st)
         /\ sleep_time' = st
    /\ pc' = "sleep"
    /\ UNCHANGED <<now, configVars, execution_times, timestamp, cycle_start,
                   parallel_duration, all_results, yielded, poolVars, endVars,
                   histVars>>

\* main.py:113-120, the branch that breaks
PaceBreak ==
    /\ pc = "pace"
    /\ LET st == NextCycleTime(Elapsed) - Elapsed IN
         /\ ~ShouldSleep(Elapsed, st)
         /\ sleep_time' = st
    /\ pc' = "summary"
    /\ UNCHANGED <<now, configVars, execution_times, timestamp, cycle_start,
                   parallel_duration, all_results, yielded, poolVars, endVars,
                   histVars>>

\* main.py:118: time.sleep returns no earlier than sleep_time after the call
Sleep ==
    /\ pc = "sleep"
    /\ now' = now + sleep_time
    /\ pc' = "loop"
    /\ UNCHANGED <<configVars, mainVars, poolVars, endVars, histVars>>

\* main.py:149: sys.exit(0), reached when the with block is left normally
NormalExit == "success"

\* mutant: the handler does not raise again and sys.exit(0) is reached
ExitZero == "success"

\* main.py:147: the exception is raised again, sys.exit(0) is not reached
Reraised == "failure"

\* main.py:122-133 and 149; a ZeroDivisionError in line 127 is caught in 135
Summary ==
    /\ pc = "summary"
    /\ IF AverageCycleTime(execution_times) = ZeroDivisionError
         THEN /\ exc' = <<"ZeroDivisionError", cycle>>
              /\ pc' = OuterHandler
              /\ UNCHANGED <<sink, outcome>>
         ELSE /\ sink' = Append(sink, SummaryRecord)
              /\ pc' = "exited"
              /\ outcome' = NormalExit
              /\ exc' = exc
    /\ UNCHANGED <<now, configVars, mainVars, poolVars, histVars>>

\* main.py:135-147: the diagnostic record is published and the exception
\* raised again
ExceptHandler ==
    /\ pc = "except"
    /\ sink' = Append(sink, PluginErrorRecord(exc))
    /\ pc' = "raised"
    /\ outcome' = Reraised
    /\ UNCHANGED <<now, configVars, mainVars, poolVars, exc, histVars>>

\* The wall clock advances while the main thread is blocked: in the fan-out
\* (main.py:50-71) and in time.sleep (118), which may return late.  The
\* program reads the clock in main.py:48, 72, 106 and 113 only, and the
\* passing of time commutes with every other step, so the clock is advanced
\* right before the step that reads it next.  The time the capture and the
\* publish calls take is accounted to the fan-out: the scheduler decides on
\* the elapsed time alone and sees only the sum.
ClockObserved ==
    \/ pc = "as_completed" /\ FanInComplete
    \/ pc = "loop" /\ cycle > 0

\* the clock is followed until it is past the budget: from there on every
\* comparison against the budget has the same answer
Tick ==
    /\ ClockObserved
    /\ Elapsed <= max_duration
    /\ now' = now + 1
    /\ UNCHANGED <<pc, configVars, mainVars, poolVars, endVars, histVars>>

Next ==
    \/ InitModels
    \/ InitModelsFail
    \/ LoopEnter
    \/ LoopExit
    \/ Capture
    \/ CaptureFail
    \/ Submit
    \/ WorkerStart
    \/ \E m \in Models : DetectReturn(m)
    \/ \E m \in Models : DetectRaise(m)
    \/ \E m \in Models : CollectResult(m)
    \/ \E m \in Models : CollectError(m)
    \/ JoinWorkers
    \/ PublishAll
    \/ PaceSleep
    \/ PaceBreak
    \/ Sleep
    \/ Summary
    \/ ExceptHandler
    \/ Tick

Spec == Init /\ [][Next]_vars

\* Every capture and every call of detect() returns, time.sleep returns and
\* the runnable threads are scheduled: a step that is possible is taken in
\* the end.  No step of Next waits for anything but these.
FairSpec == Spec /\ WF_vars(Next)

----------------------------------------------------------------------------
(* The publish sink may fail: plugin.publish raises.  No call of            *)
(* plugin.publish is guarded by a handler of its own, so the exception      *)
(* leaves run_detection_cycle_parallel and is caught in main.py:135.        *)

\* main.py:66-70: publishing the error record raises inside the as_completed
\* loop; the exception leaves the with block of the executor (main.py:50)
PublishErrorFail(m) ==
    /\ pc = "as_completed"
    /\ status[m] = "done"
    /\ m \notin yielded
    /\ ~IsSuccess(future[m][2])
    /\ exc' = <<"PublishError", cycle>>
    /\ pc' = "unwind"
    /\ UNCHANGED <<now, configVars, mainVars, poolVars, sink, outcome,
                   histVars>>

\* main.py:50: the with block is left by the exception; its exit shuts the
\* executor down with wait=True, so the queued and running calls finish
\* before the exception goes on to the handler of main
UnwindExecutor ==
    /\ pc = "unwind"
    /\ ExecutorShutDown
    /\ pc' = OuterHandler
    /\ UNCHANGED <<now, configVars, mainVars, poolVars, endVars, histVars>>

\* main.py:80: publishing the combined record raises
PublishAllFail ==
    /\ pc = "publish_all"
    /\ exc' = <<"PublishError", cycle>>
    /\ pc' = OuterHandler
    /\ UNCHANGED <<now, configVars, mainVars, poolVars, sink, outcome,
                   histVars>>

\* main.py:133: publishing the summary raises
SummaryFail ==
    /\ pc = "summary"
    /\ AverageCycleTime(execution_times) # ZeroDivisionError
    /\ exc' = <<"PublishError", cycle>>
    /\ pc' = OuterHandler
    /\ UNCHANGED <<now, configVars, mainVars, poolVars, sink, outcome,
                   histVars>>

\* main.py:136-143: publishing plugin.error raises inside the handler; the
\* new exception leaves main, sys.exit(0) is not reached
ExceptHandlerFail ==
    /\ pc = "except"
    /\ pc' = "raised"
    /\ outcome' = Reraised
    /\ UNCHANGED <<now, configVars, mainVars, poolVars, sink, exc, histVars>>

NextSinkFail ==
    \/ Next
    \/ \E m \in Models : PublishErrorFail(m)
    \/ UnwindExecutor
    \/ PublishAllFail
    \/ SummaryFail
    \/ ExceptHandlerFail

\* the program with a publish sink that may fail
SpecSinkFail == Init /\ [][NextSinkFail]_vars

----------------------------------------------------------------------------
(* A model may hang: its detect() never returns.  Neither future.result()   *)
(* nor as_completed is given a timeout (main.py:61-62).                     *)

\* main.py:25: the call of detect() does not return
DetectHang(m) ==
    /\ status[m] = "running"
    /\ status' = [status EXCEPT ![m] = "hung"]
    /\ outcomes' = Noted(m, "hung")
    /\ UNCHANGED <<pc, now, configVars, mainVars, work_queue, future,
                   endVars, cycle, started_at, captures, invocations, faults>>

\* main.py:61: the main thread is blocked in as_completed with nothing left
\* to do but wait for a hung call: every other call that got a worker has
\* finished and was handled
BlockedOnHung ==
    /\ pc = "as_completed"
    /\ Hung # {}
    /\ Running = {}
    /\ work_queue = <<>> \/ ~WorkerFree
    /\ \A m \in Models : status[m] = "done" => m \in yielded

\* the wall clock advances while the main thread is blocked on a hung call
TickHung ==
    /\ BlockedOnHung
    /\ Elapsed <= max_duration
    /\ now' = now + 1
    /\ UNCHANGED <<pc, configVars, mainVars, poolVars, endVars, histVars>>

NextHang ==
    \/ Next
    \/ \E m \in Models : DetectHang(m)
    \/ TickHung

\* the program with models that may hang
SpecHang == Init /\ [][NextHang]_vars

----------------------------------------------------------------------------
(* What the sink has received *)

IsDetections(r) == r.topic = "object.detections.all"
IsModelError(r) == r.topic = "model.error"
IsSummary(r) == r.topic = "plugin.timing.summary"
IsPluginError(r) == r.topic = "plugin.error"

DetectionsAt == {i \in DOMAIN sink : IsDetections(sink[i])}
ErrorsOf(c) == {i \in DOMAIN sink : IsModelError(sink[i]) /\ sink[i].cycle = c}
SummariesAt == {i \in DOMAIN sink : IsSummary(sink[i])}
PluginErrorsAt == {i \in DOMAIN sink : IsPluginError(sink[i])}
Finished == {"detections", "none", "raised"}
Raised(e, kind) == e # NoException /\ e[1] = kind

----------------------------------------------------------------------------
\* C1: in every completed cycle each model was invoked exactly once and has
\* exactly one outcome: its name is a key of the cycle's models_results, or
\* one record was published for it under its model.error topic; never both,
\* never neither, so |results| + |errors| = |models|.
C1_ExactlyOneOutcome ==
    \A i \in DetectionsAt :
        LET c == sink[i].cycle
            keys == sink[i].keys
        IN  /\ keys \subseteq Models
            /\ \A m \in Models :
                 LET e == {j \in ErrorsOf(c) : sink[j].name = Lower(m)} IN
                   \/ m \in keys /\ e = {}
                   \/ m \notin keys /\ Cardinality(e) = 1
            /\ Cardinality(keys) + Cardinality(ErrorsOf(c))
                 = Cardinality(Models)
            /\ \A m \in Models : outcomes[c][m] \in Finished
            /\ c = cycle => \A m \in Models : invocations[m] = 1

\* a completed cycle with one success and two error records
C1_Witness ==
    \E i \in DetectionsAt :
        /\ Cardinality(sink[i].keys) = 1
        /\ Cardinality(ErrorsOf(sink[i].cycle)) = 2

\* C2: a cycle in which one model raises and the other two succeed is not
\* aborted: it is still in its fan-in or about to publish, or its combined
\* record holds exactly the two other models and exactly one error record,
\* that of the failed model, was published for it; under every interleaving
\* of the workers and in every cycle.
C2_FailureIsolated ==
    \A c \in DOMAIN outcomes : \A b \in Models :
        ( /\ outcomes[c][b] = "raised"
          /\ \A a \in Models \ {b} : outcomes[c][a] = "detections" )
        =>
        \/ c = cycle /\ pc \in {"as_completed", "publish_all"}
        \/ /\ \E i \in DetectionsAt :
                 sink[i].cycle = c /\ sink[i].keys = Models \ {b}
           /\ Cardinality(ErrorsOf(c)) = 1
           /\ \A j \in ErrorsOf(c) :
                 sink[j].name = Lower(b) /\ sink[j].payload = ErrorData(b)

\* the same model raised in two cycles in a row and both cycles were recorded
C2_Witness ==
    /\ Len(outcomes) = 2
    /\ Cardinality(DetectionsAt) = 2
    /\ \A c \in {1, 2} :
         /\ outcomes[c]["YOLOv5n"] = "raised"
         /\ outcomes[c]["YOLOv8n"] = "detections"
         /\ outcomes[c]["YOLOv10n"] = "detections"

\* C3: outside the fan-in no call to a model is queued or running, in
\* particular when the combined record is published, when the cycle returns
\* and when the next cycle captures; every published combined record belongs
\* to a cycle all of whose invocations have completed.
C3_FanInWaitsForAll ==
    /\ pc # "as_completed" => Running = {} /\ work_queue = <<>>
    /\ pc = "publish_all" => \A m \in Models : status[m] = "done"
    /\ \A i \in DetectionsAt :
         \A m \in Models : outcomes[sink[i].cycle][m] \in Finished

\* the second cycle is about to capture after the first was published
C3_Witness ==
    /\ pc = "capture"
    /\ cycle = 2
    /\ Cardinality(DetectionsAt) = 1
    /\ \A m \in Models : status[m] = "done"

\* C4: the combined record and every model.error record of a cycle carry the
\* timestamp of the snapshot taken at the start of that cycle, and no two
\* cycles share a timestamp.
C4_TimestampOfCycle ==
    LET tagged == {i \in DOMAIN sink :
                     IsDetections(sink[i]) \/ IsModelError(sink[i])}
    IN  /\ \A i \in tagged :
             /\ sink[i].cycle \in DOMAIN captures
             /\ sink[i].ts = captures[sink[i].cycle]
        /\ \A i, j \in tagged :
             sink[i].cycle # sink[j].cycle => sink[i].ts # sink[j].ts

\* the second cycle published an error record and its combined record
C4_Witness ==
    /\ ErrorsOf(2) # {}
    /\ \E i \in DetectionsAt : sink[i].cycle = 2

\* C5: the combined records in the sink are those of the cycles 1, 2, ... in
\* this order, one per completed cycle, and the record of a cycle is in the
\* sink before the next cycle captures.
C5_OneRecordPerCycleInOrder ==
    LET D == SelectSeq(sink, IsDetections) IN
        /\ \A k \in DOMAIN D : D[k].cycle = k
        /\ Len(D) = Len(execution_times)
        /\ pc \in {"capture", "submit", "as_completed", "publish_all"}
             => Len(D) = cycle - 1
        /\ pc \in {"pace", "sleep", "loop", "summary", "exited"}
             => Len(D) = cycle

\* the third cycle is about to capture with two records in the sink
C5_Witness ==
    /\ pc = "capture"
    /\ cycle = 3
    /\ Len(SelectSeq(sink, IsDetections)) = 2

\* C6 as stated: a run that ends normally has completed floor(B/T) - 1 to
\* floor(B/T) + 1 cycles, and no cycle started later than B.
C6_CountWithinOne ==
    outcome = "success" =>
        LET n == Len(execution_times)
            q == max_duration \div interval
        IN  /\ q - 1 <= n
            /\ n <= q + 1
            /\ cycle > 0 => started_at <= max_duration

\* C6 amended: a run that ends normally has completed at most floor(B/T) + 1
\* cycles, and no cycle started later than B.
C6_CountAtMost ==
    /\ outcome = "success" =>
         Len(execution_times) <= (max_duration \div interval) + 1
    /\ cycle > 0 => started_at <= max_duration

\* a normal end after floor(B/T) + 1 = 3 cycles
C6_Witness ==
    /\ outcome = "success"
    /\ Len(execution_times) = 3
    /\ Len(execution_times) = (max_duration \div interval) + 1

\* C7: a run with budget 0 whose models were built starts no cycle: no
\* capture, no invocation, no detections or error record; it raises nothing
\* and ends normally with the one record of the sink being the summary with
\* total_cycles = 0.
C7_ZeroBudget ==
    ( /\ max_duration = 0
      /\ pc # "init_models"
      /\ ~Raised(exc, "ModelLoadError") )
    =>
    /\ cycle = 0
    /\ captures = <<>>
    /\ invocations = NoCalls
    /\ exc = NoException
    /\ pc \in {"loop", "summary", "exited"}
    /\ \A i \in DOMAIN sink : IsSummary(sink[i])
    /\ pc = "exited" =>
         /\ Len(sink) = 1
         /\ sink[1].payload[1] = 0
         /\ outcome = "success"

\* the run with budget 0 has ended
C7_Witness ==
    /\ max_duration = 0
    /\ pc = "exited"
    /\ sink # <<>>

\* C8: a run whose loop was left by the budget check or the pacing break has,
\* once it has ended, published the summary exactly once, as the last record
\* of the sink (after every combined record), and no plugin.error record; the
\* summary is never published twice.
C8_SummaryOnce ==
    /\ Cardinality(SummariesAt) <= 1
    /\ ( /\ pc \in {"exited", "raised"}
         /\ ~Raised(exc, "ModelLoadError")
         /\ ~Raised(exc, "CaptureError") )
       =>
       /\ outcome = "success"
       /\ SummariesAt = {Len(sink)}
       /\ PluginErrorsAt = {}

\* a normal end after two cycles
C8_Witness ==
    /\ outcome = "success"
    /\ Cardinality(DetectionsAt) = 2
    /\ IsSummary(sink[Len(sink)])

\* C9: when the capture of cycle k has failed, the run is in the handler or
\* has ended, at most k - 1 combined records are in the sink, no model was
\* invoked for cycle k and no record of cycle k was published.
C9_CaptureFailure ==
    Raised(exc, "CaptureError") =>
        LET k == exc[2] IN
            /\ pc \in {"except", "raised"}
            /\ Cardinality(DetectionsAt) <= k - 1
            /\ outcomes[k] = NotInvoked
            /\ \A i \in DOMAIN sink : sink[i].cycle # k

\* the capture of the second cycle failed and the run has ended
C9_Witness ==
    /\ Raised(exc, "CaptureError")
    /\ exc[2] = 2
    /\ pc = "raised"
    /\ Cardinality(DetectionsAt) = 1

\* C10: once an exception has reached the handler of main, no further cycle
\* starts and no summary is published; the handler publishes plugin.error
\* exactly once and the run then ends with the exception raised again, not
\* with the success exit.  No plugin.error is published otherwise.
C10_FatalError ==
    /\ exc # NoException =>
         /\ pc \in {"except", "raised"}
         /\ cycle = exc[2]
         /\ SummariesAt = {}
         /\ pc = "except" => PluginErrorsAt = {} /\ outcome = "running"
         /\ pc = "raised" => PluginErrorsAt = {Len(sink)} /\ outcome = "failure"
    /\ exc = NoException => PluginErrorsAt = {} /\ outcome # "failure"

\* the run ended in failure after a capture failure in its first cycle
C10_Witness ==
    /\ outcome = "failure"
    /\ Raised(exc, "CaptureError")
    /\ exc[2] = 1
    /\ IsPluginError(sink[Len(sink)])

\* C11: a failure of the publish sink does not crash the run: once a publish
\* call has raised, the run does not enter the handler of main and does not
\* end in failure.
C11_PublishFailureSurvived ==
    Raised(exc, "PublishError") =>
        /\ pc \notin {"except", "raised"}
        /\ outcome # "failure"

\* C12 as stated: every error record of a cycle is in the sink after the
\* combined record of that cycle.
C12_CombinedThenErrors ==
    \A j \in DOMAIN sink :
        IsModelError(sink[j]) =>
            \E i \in DetectionsAt : sink[i].cycle = sink[j].cycle /\ i < j

\* C12 amended: every error record of a cycle is in the sink before the
\* combined record of that cycle and after the combined records of all
\* earlier cycles.
C12_ErrorsThenCombined ==
    \A j \in DOMAIN sink :
        IsModelError(sink[j]) =>
            \A i \in DetectionsAt :
                /\ sink[i].cycle = sink[j].cycle => j < i
                /\ sink[i].cycle < sink[j].cycle => i < j

\* the first cycle published two error records and then its combined record
C12_Witness ==
    /\ Len(sink) >= 3
    /\ IsModelError(sink[1])
    /\ IsModelError(sink[2])
    /\ IsDetections(sink[3])
    /\ sink[3].cycle = 1

\* C13: at every instant at most min(3, CPU cores) model invocations are
\* running; a model that has no worker yet is waiting in the queue, not yet
\* invoked; no model is invoked twice in a cycle, and when the fan-in is
\* over every model of the cycle has been invoked exactly once.
C13_BoundedConcurrency ==
    /\ Cardinality(Running) <= WorkerCap
    /\ Cardinality(Running) <= num_cores
    /\ \A m \in Models :
         /\ invocations[m] <= 1
         /\ status[m] = "queued" =>
               /\ invocations[m] = 0
               /\ \E i \in DOMAIN work_queue : work_queue[i] = m
         /\ status[m] \in {"running", "done"} /\ pc = "as_completed" =>
               invocations[m] = 1
    /\ pc \in {"publish_all", "pace"} =>
         \A m \in Models : invocations[m] = 1 /\ status[m] = "done"

\* two cores: two models are running and the third waits in the queue
C13_Witness ==
    /\ num_cores = 2
    /\ Cardinality(Running) = 2
    /\ work_queue = <<"YOLOv10n">>
    /\ invocations["YOLOv10n"] = 0

\* C14: a sleep that has begun ends at the next multiple of the interval
\* after the end of the cycle, counted from start_time, and that multiple
\* lies before the budget; the loop is left only when the next multiple
\* does not lie before the budget; and the k-th cycle of a run starts no
\* earlier than (k - 1) intervals after start_time.
C14_SleepInsideBudget ==
    /\ pc = "sleep" =>
         /\ 0 < sleep_time /\ sleep_time <= interval
         /\ (Elapsed + sleep_time) % interval = 0
         /\ Elapsed + sleep_time < max_duration
    /\ pc = "summary" =>
         ((Elapsed \div interval) + 1) * interval >= max_duration
    /\ cycle > 1 =>
         /\ started_at >= (cycle - 1) * interval
         /\ started_at < max_duration

\* after its second cycle the scheduler sleeps until second 6 of the run
C14_Witness ==
    /\ pc = "sleep"
    /\ cycle = 2
    /\ Elapsed < 6
    /\ Elapsed + sleep_time = 6

InCycle == {"capture", "submit", "as_completed", "publish_all"}

\* C15: every cycle started while the elapsed time was below the budget,
\* and every started cycle is still in flight, or was ended by the failure
\* of its capture, or has completed: all its models have finished and its
\* combined record is in the sink, however much time has passed since.
C15_BudgetGatesStartOnly ==
    /\ cycle > 0 => started_at < max_duration
    /\ \A c \in 1..cycle :
         \/ c = cycle /\ pc \in InCycle
         \/ c = cycle /\ Raised(exc, "CaptureError") /\ exc[2] = c
         \/ /\ \E i \in DetectionsAt : sink[i].cycle = c
            /\ \A m \in Models : outcomes[c][m] \in Finished

\* the second cycle started inside the budget, ended after the budget had
\* expired and was published all the same
C15_Witness ==
    /\ pc = "pace"
    /\ cycle = 2
    /\ started_at < max_duration
    /\ Elapsed > max_duration
    /\ \E i \in DetectionsAt : sink[i].cycle = 2 /\ sink[i].keys = Models

\* C16: from the moment a call of detect() hangs, its cycle stays the
\* current one and stays in its fan-in: no combined record of that cycle,
\* no later cycle and no summary is ever published and the run does not
\* end, whatever the other models did and however much time has passed.
C16_HungModelStallsRun ==
    \A c \in DOMAIN outcomes :
        (\E m \in Models : outcomes[c][m] = "hung") =>
            /\ c = cycle
            /\ pc = "as_completed"
            /\ Hung = {m \in Models : outcomes[c][m] = "hung"}
            /\ \A i \in DetectionsAt : sink[i].cycle < c
            /\ Len(execution_times) = c - 1
            /\ SummariesAt = {}
            /\ outcome = "running"

\* one call hangs, the two others have completed and were collected, and
\* the budget has expired
C16_Witness ==
    /\ Hung = {"YOLOv5n"}
    /\ yielded = Models \ {"YOLOv5n"}
    /\ Elapsed > max_duration
    /\ max_duration > 0

\* C17: in every completed cycle a model has an error record exactly when
\* its detect() call raised, and a model whose call returned, with whatever
\* value, is a key of models_results; every error record carries the model
\* name, the error kind and the error message.
C17_ErrorIffRaised ==
    /\ \A i \in DetectionsAt : \A m \in Models :
         LET c == sink[i].cycle IN
           /\ (\E j \in ErrorsOf(c) : sink[j].name = Lower(m))
                <=> outcomes[c][m] = "raised"
           /\ outcomes[c][m] \in {"detections", "none"} => m \in sink[i].keys
    /\ \A j \in DOMAIN sink :
         IsModelError(sink[j]) =>
            /\ Len(sink[j].payload) = 3
            /\ \E m \in Models : sink[j].payload = ErrorData(m)
                                  /\ sink[j].name = Lower(m)

\* the run is over: the summary was published last and the process exits
\* with success, or plugin.error was published last and the exception was
\* raised again
RunEnded ==
    \/ /\ pc = "exited"
       /\ outcome = "success"
       /\ exc = NoException
       /\ SummariesAt = {Len(sink)}
    \/ /\ pc = "raised"
       /\ outcome = "failure"
       /\ exc # NoException
       /\ PluginErrorsAt = {Len(sink)}

\* C18: when every capture and every call of detect() returns and time goes
\* on, the run ends: eventually the summary has been published and the
\* process exits, or the handler has published plugin.error and raised
\* again.
C18_RunTerminates == <>RunEnded

\* a run that slept between its two cycles has ended after its budget
C18_Witness ==
    /\ RunEnded
    /\ pc = "exited"
    /\ cycle = 2
    /\ started_at = interval
    /\ Elapsed >= max_duration

\* C19: a cycle never starts in the pacing slot [k*T, (k+1)*T) in which the
\* cycle before it started, so slots are used at most once and in order,
\* and the number of cycles started is at most ceil(B/T), that is
\* (cycles - 1) * T < B.
C19_OneCyclePerSlot ==
    /\ [][cycle' = cycle + 1 /\ cycle > 0 =>
             started_at' \div interval > started_at \div interval]_vars
    /\ [](cycle > 0 => (cycle - 1) * interval < max_duration)

\* a run with room for three paced cycles ended normally after one cycle
\* that overran two interval boundaries
C19_Witness ==
    /\ outcome = "success"
    /\ max_duration \div interval = 3
    /\ Len(execution_times) = 1
    /\ execution_times[1] >= 2 * interval

\* C20: when the run has ended normally, the last record of the sink is the
\* summary and its total_cycles equals the number of combined records in
\* the sink and the number of snapshots taken.
C20_CountsAgree ==
    outcome = "success" =>
        /\ sink # <<>>
        /\ IsSummary(sink[Len(sink)])
        /\ sink[Len(sink)].payload[1] = Cardinality(DetectionsAt)
        /\ sink[Len(sink)].payload[1] = Len(captures)

\* a normal end after two captures, one of them with a failed model
C20_Witness ==
    /\ outcome = "success"
    /\ Len(captures) = 2
    /\ sink[Len(sink)].payload[1] = 2
    /\ ErrorsOf(2) # {}

====
